---- MODULE Spec2Model ----
(***************************************************************************)
(* DocuMind front end: PDF ingestion (UploadIndex.jsx), chat (Chat.jsx and *)
(* its later revision) and the App shell.                                  *)
(*                                                                         *)
(* JavaScript strings are modelled as sequences of one-character strings,  *)
(* so slicing, trimming, splitting and searching are computed character by *)
(* character.                                                              *)
(***************************************************************************)
EXTENDS Integers, Sequences, FiniteSets, TLC

VARIABLES
  \* ---- chunker: the body of pages.forEach in handleFile, for one page
  pageText,     \* p.text, the raw text of the page
  txt,          \* the normalized text (line 148)
  pageChunks,   \* the chunks pushed for this page
  chunkPc,      \* "raw" | "normalized" | "chunked"
  \* ---- local retrieval: the scoring of demoLocalAnswer (Chat.jsx 290-296)
  rq,           \* q, the question typed
  rChunks,      \* parsed.chunks
  rScores,      \* scores, after the sort
  rBest,        \* best
  retrPc,       \* "ready" | "done"
  \* ---- placeholder substitution: the mathList.forEach of ask
  sMd0,         \* data.answer_markdown
  sMathList,    \* data.math_expressions
  sMd,          \* md
  sIdx,         \* i, the index the forEach is at
  sWrapped,     \* the values of `wrapped`, one per expression done
  \* ---- browser
  pdfjsLib,     \* whether window.pdfjsLib || window.PDFJS is set
  idb,          \* IndexedDB documind-db / collections: key -> value
  localStore,   \* window.localStorage: key -> JSON text
  clock,        \* Date.now()
  \* ---- UploadIndex: component state and the locals of handleFile
  status, progress, currentPage, totalPages, isProcessing,
  upc,          \* the await handleFile is suspended at, "idle" when not running
  uFile,        \* file
  uI,           \* i of the page loop
  uPages,       \* pages
  uChunks,      \* chunks
  uName,        \* collectionName
  uPayload,     \* payload
  uEstimate,    \* what navigator.storage.estimate() gave this save
  putInvoked,   \* whether idbPut was called for this save
  saveOutcome,  \* "none" | "saved" | "skipped", how this save ended
  resetTimers,  \* pending setTimeout(..., 2000) callbacks
  uploads,      \* files selected so far
  uReqs,        \* the remote requests this upload has sent, with their results
  uIndexed,     \* whether this upload has called onIndexed
  \* ---- App
  collection,   \* App's collection state
  \* ---- Chat: component state and the locals of ask
  chatBuild,    \* which Chat is mounted: "messages" (part_000, Chat.jsx 6-182)
                \* or "answerHtml" (Chat.jsx 187-333, with demoLocalAnswer)
  q, messages, answerHtml, sources, chatLoading,
  apc,          \* the await ask is suspended at, "idle" when not running
  userMessage,  \* userMessage
  chatLast,     \* how the last chat operation ended, "pending" while ask runs
  asks,         \* chat operations started so far
  demoKey,      \* the key demoLocalAnswer last read
  demoStored,   \* what it read there, after JSON.parse
  aReqs,        \* the remote requests this ask has sent, with their results
  reqCollection, \* the collection named in the payload of this ask
  aResp,        \* what POST /api/chat gave this ask, NoResp before it settles
  \* ---- the backend, as the requests reach it
  indexSettled, \* the collections whose POST /api/index has settled
  \* ---- how far a specification follows the user
  disk,         \* the names of the files the user can select
  uploadCap,    \* the number of files the user selects
  askCap        \* the number of chat operations the user starts

chunkVars == <<pageText, txt, pageChunks, chunkPc>>
retrVars == <<rq, rChunks, rScores, rBest, retrPc>>
substVars == <<sMd0, sMathList, sMd, sIdx, sWrapped>>
browserVars == <<pdfjsLib, idb, localStore, clock>>
uiVars == <<status, progress, currentPage, totalPages, isProcessing>>
uploadVars == <<uiVars, upc, uFile, uI, uPages, uChunks, uName, uPayload,
                uEstimate, putInvoked, saveOutcome, resetTimers, uploads,
                uReqs, uIndexed>>
chatVars == <<chatBuild, q, messages, answerHtml, sources, chatLoading, apc,
              userMessage, chatLast, asks, demoKey, demoStored, aReqs,
              reqCollection, aResp>>
capVars == <<disk, uploadCap, askCap>>
appVars == <<browserVars, uploadVars, collection, chatVars, indexSettled, capVars>>
vars == <<chunkVars, retrVars, substVars, appVars>>

\* the variables of the other components, for each component
notChunkVars == <<retrVars, substVars, appVars>>
notRetrVars == <<chunkVars, substVars, appVars>>
notSubstVars == <<chunkVars, retrVars, appVars>>
notAppVars == <<chunkVars, retrVars, substVars>>

\* a component that is not running in the specification at hand
ChunkIdle == pageText = <<>> /\ txt = <<>> /\ pageChunks = <<>> /\ chunkPc = "off"
RetrIdle == rq = <<>> /\ rChunks = <<>> /\ rScores = <<>> /\ rBest = <<>> /\ retrPc = "off"
SubstIdle == sMd0 = <<>> /\ sMathList = <<>> /\ sMd = <<>> /\ sIdx = -1 /\ sWrapped = <<>>
UploadIdle ==
  /\ status = <<>> /\ progress = 0 /\ currentPage = 0 /\ totalPages = 0
  /\ isProcessing = FALSE
  /\ upc = "off" /\ uFile = <<>> /\ uI = 0 /\ uPages = <<>> /\ uChunks = <<>>
  /\ uName = <<>> /\ uPayload = <<>> /\ uEstimate = <<>> /\ putInvoked = FALSE
  /\ saveOutcome = "none" /\ resetTimers = 0 /\ uploads = 0
  /\ uReqs = <<>> /\ uIndexed = FALSE
  /\ disk = {} /\ uploadCap = 0
ChatIdle ==
  /\ chatBuild = "off" /\ q = <<>> /\ messages = <<>> /\ answerHtml = <<>>
  /\ sources = <<>> /\ chatLoading = FALSE /\ apc = "off" /\ userMessage = <<>>
  /\ chatLast = "none" /\ asks = 0 /\ demoKey = <<>> /\ demoStored = <<>>
  /\ aReqs = <<>> /\ reqCollection = <<>> /\ aResp = <<>>
  /\ askCap = 0
AppIdle ==
  /\ pdfjsLib = FALSE /\ idb = <<>> /\ localStore = <<>> /\ clock = 0
  /\ indexSettled = {}
  /\ collection = <<>>
  /\ UploadIdle /\ ChatIdle

(***************************************************************************)
(* Strings                                                                 *)
(***************************************************************************)
Min2(a, b) == IF a < b THEN a ELSE b

\* the whitespace characters of the model's alphabet (JavaScript's \s)
IsWs(c) == c \in {" ", "\n", "\t"}

\* String.prototype.slice(s, e) for 0 <= s <= e <= length
Slice(t, s, e) == SubSeq(t, s + 1, e)

RECURSIVE SkipWsFwd(_, _)
SkipWsFwd(t, i) == IF i <= Len(t) /\ IsWs(t[i]) THEN SkipWsFwd(t, i + 1) ELSE i

RECURSIVE SkipWsBack(_, _)
SkipWsBack(t, j) == IF j >= 1 /\ IsWs(t[j]) THEN SkipWsBack(t, j - 1) ELSE j

\* String.prototype.trim()
Trim(t) == SubSeq(t, SkipWsFwd(t, 1), SkipWsBack(t, Len(t)))

\* .replace(/\n/g, ' ')
ReplaceNewlines(t) == [i \in 1..Len(t) |-> IF t[i] = "\n" THEN " " ELSE t[i]]

\* .replace(/\s+/g, ' ') on t[lo..hi]: the first character of every
\* whitespace run becomes one space, the rest of the run is dropped
RECURSIVE CollapseRange(_, _, _)
CollapseRange(t, lo, hi) ==
  IF lo > hi THEN <<>>
  ELSE IF lo = hi
       THEN (IF IsWs(t[lo])
             THEN (IF lo > 1 /\ IsWs(t[lo - 1]) THEN <<>> ELSE <<" ">>)
             ELSE <<t[lo]>>)
       ELSE LET mid == (lo + hi) \div 2
            IN  CollapseRange(t, lo, mid) \o CollapseRange(t, mid + 1, hi)

CollapseWs(t) == CollapseRange(t, 1, Len(t))

(***************************************************************************)
(* Chunker (UploadIndex.jsx, handleFile, lines 143-157)                    *)
(***************************************************************************)
chunkSize == 1500
overlap == 300
\* the literal of `chunk.length > 50`
minKeep == 50

\* (p.text || '').replace(/\n/g, ' ').replace(/\s+/g, ' ').trim()
Normalize(t) == Trim(CollapseWs(ReplaceNewlines(t)))

\* const e = Math.min(s + chunkSize, txt.length)
WindowEnd(t, s) == Min2(s + chunkSize, Len(t))

\* mutant: the window is pushed without trimming
ChunkTextNoTrim(t, s, e) == Slice(t, s, e)

\* const chunk = txt.slice(s, e).trim()
ChunkText(t, s, e) == Trim(Slice(t, s, e))

\* mutant: a chunk of exactly 50 characters is kept
KeepChunkGe(chunk) == Len(chunk) >= minKeep

\* if (chunk.length > 50) chunks.push(...)
KeepChunk(chunk) == Len(chunk) > minKeep

\* mutant: the next window starts one character late
NextOffsetLate(e) == e - overlap + 1

\* s = e - overlap
NextOffset(e) == e - overlap

\* let s = 0; while (s < txt.length) { ... }
RECURSIVE ChunkLoop(_, _, _, _)
ChunkLoop(t, page, s, acc) ==
  IF ~(s < Len(t)) THEN acc
  ELSE LET e     == WindowEnd(t, s)
           chunk == ChunkText(t, s, e)
           acc2  == IF KeepChunk(chunk)
                    THEN Append(acc, [page |-> page, text |-> chunk])
                    ELSE acc
       IN  IF e = Len(t) THEN acc2 ELSE ChunkLoop(t, page, NextOffset(e), acc2)

(***************************************************************************)
(* Page texts the chunker is run on                                        *)
(***************************************************************************)
\* how many windows the longest text spans, and how far around each length
\* at which the window layout changes the lengths are taken
MaxWindows == 3
Slack == 1

Letters == <<"a", "b", "c", "d", "e", "f", "g">>

\* a text of L characters, letters in a fixed cycle, the whitespace
\* character w at the positions P
MkText(L, P, w) ==
  [i \in 1..L |-> IF i \in P THEN w ELSE Letters[(i % Len(Letters)) + 1]]

Stride == chunkSize - overlap

\* lengths at which a window appears, fills up, or a chunk is kept
EdgeLens ==
  {0, minKeep, overlap} \cup
  {k * Stride : k \in 1..(MaxWindows - 1)} \cup
  {k * Stride + overlap : k \in 1..(MaxWindows - 1)} \cup
  {k * Stride + minKeep : k \in 1..(MaxWindows - 1)}

TextLens ==
  {n \in {b + d : b \in EdgeLens, d \in (0 - Slack)..Slack} : n >= 0}
    \cup {120, 2000}

\* raw positions that land on the first window's last character and on the
\* second window's first character (an adjacent pair collapses to one)
SpacePos == {1, Stride, Stride + 1, chunkSize, chunkSize + 1}

SpaceSets == {P \in SUBSET SpacePos : Cardinality(P) <= 2}

PageTexts ==
  {MkText(L, P, " ") : L \in TextLens, P \in SpaceSets} \cup
  {MkText(L, {chunkSize}, "\n") : L \in TextLens}

ChunkInit ==
  /\ pageText \in PageTexts
  /\ txt = <<>>
  /\ pageChunks = <<>>
  /\ chunkPc = "raw"
  /\ RetrIdle /\ SubstIdle /\ AppIdle

NormalizePage ==
  /\ chunkPc = "raw"
  /\ txt' = Normalize(pageText)
  /\ chunkPc' = "normalized"
  /\ UNCHANGED <<pageText, pageChunks, notChunkVars>>

ChunkPageStep ==
  /\ chunkPc = "normalized"
  /\ pageChunks' = ChunkLoop(txt, 1, 0, <<>>)
  /\ chunkPc' = "chunked"
  /\ UNCHANGED <<pageText, txt, notChunkVars>>

ChunkNext == NormalizePage \/ ChunkPageStep

SpecChunk == ChunkInit /\ [][ChunkNext]_vars

(***************************************************************************)
(* Chunker properties                                                      *)
(***************************************************************************)
ChunkTexts == [i \in 1..Len(pageChunks) |-> pageChunks[i].text]

Prefix(t, k) == SubSeq(t, 1, k)
Suffix(t, k) == SubSeq(t, Len(t) - k + 1, Len(t))

\* the chunk candidates of the algorithm: windows of 1500 characters of the
\* normalized text at offsets 0, 1200, 2400, ... up to the window that
\* reaches the end of the text
NumCandidates == IF Len(txt) <= 1500 THEN 1 ELSE 1 + ((Len(txt) - 1500 + 1199) \div 1200)
CandStart(i) == (i - 1) * 1200
CandEnd(i) == Min2(CandStart(i) + 1500, Len(txt))
Candidate(i) == SubSeq(txt, CandStart(i) + 1, CandEnd(i))
Candidates == [i \in 1..NumCandidates |-> Candidate(i)]
TrimmedCandidates == [i \in 1..NumCandidates |-> Trim(Candidate(i))]

AtLeast50(c) == Len(c) >= 50
MoreThan50(c) == Len(c) > 50

\* C8: every chunk emitted for a page is longer than 50 characters and at
\* most chunkSize = 1500 characters long
ChunkLengthBounds ==
  chunkPc = "chunked" =>
    \A i \in 1..Len(pageChunks) :
      Len(pageChunks[i].text) > 50 /\ Len(pageChunks[i].text) <= 1500

\* C8 witness: a page that gave a full first chunk and a shorter last one
ChunkLengthBoundsWitness ==
  /\ chunkPc = "chunked"
  /\ Len(pageChunks) >= 2
  /\ Len(pageChunks[1].text) = 1500
  /\ Len(pageChunks[Len(pageChunks)].text) < 1500

\* C9 as stated: the last 300 characters of a chunk are the first 300
\* characters of the next chunk of the page
OverlapExactly300 ==
  chunkPc = "chunked" =>
    \A i \in 1..(Len(pageChunks) - 1) :
      /\ Len(pageChunks[i].text) >= 300
      /\ Len(pageChunks[i + 1].text) >= 300
      /\ Suffix(pageChunks[i].text, 300) = Prefix(pageChunks[i + 1].text, 300)

\* the characters two consecutive chunks share: the 300 of their windows,
\* less a space trimmed off the end of the earlier window, less a space
\* trimmed off the start of the later one
SharedLen(i) ==
  300 - (IF IsWs(txt[CandEnd(i)]) THEN 1 ELSE 0)
      - (IF IsWs(txt[CandStart(i + 1) + 1]) THEN 1 ELSE 0)

\* C9 amended: consecutive chunks of a page are the trimmed texts of windows
\* that overlap by exactly 300 characters, so they share 300 characters less
\* one for each space trimmed at the shared boundary (298 to 300)
OverlapOfTrimmedWindows ==
  chunkPc = "chunked" =>
    \A i \in 1..(Len(pageChunks) - 1) :
      /\ CandEnd(i) - CandStart(i + 1) = 300
      /\ Len(pageChunks[i].text) >= SharedLen(i)
      /\ Len(pageChunks[i + 1].text) >= SharedLen(i)
      /\ Suffix(pageChunks[i].text, SharedLen(i))
           = Prefix(pageChunks[i + 1].text, SharedLen(i))
      /\ pageChunks[i].text = Trim(Candidate(i))
      /\ pageChunks[i + 1].text = Trim(Candidate(i + 1))

\* C9 witness: two chunks whose shared boundary had a space trimmed off
OverlapWitness ==
  /\ chunkPc = "chunked"
  /\ Len(pageChunks) >= 2
  /\ SharedLen(1) = 299

\* C10 as stated: a candidate is discarded iff it is shorter than 50, and
\* every other candidate is emitted with the candidate as its text
DiscardIffShorterThan50 ==
  chunkPc = "chunked" => ChunkTexts = SelectSeq(Candidates, AtLeast50)

\* C10 amended: a candidate is discarded iff its trimmed text has 50
\* characters or fewer, and every other candidate is emitted with the
\* trimmed candidate as its text
DiscardIffTrimmedAtMost50 ==
  chunkPc = "chunked" => ChunkTexts = SelectSeq(TrimmedCandidates, MoreThan50)

\* C10 witness: a candidate of exactly 50 characters was discarded
DiscardWitness ==
  /\ chunkPc = "chunked"
  /\ Len(txt) = 50
  /\ pageChunks = <<>>

(***************************************************************************)
(* Local retrieval (Chat.jsx, demoLocalAnswer, lines 290-296)              *)
(***************************************************************************)
UpperCase == <<"A", "B", "C", "D", "E", "F", "G", "H", "I", "J", "K", "L", "M",
               "N", "O", "P", "Q", "R", "S", "T", "U", "V", "W", "X", "Y", "Z">>
LowerCase == <<"a", "b", "c", "d", "e", "f", "g", "h", "i", "j", "k", "l", "m",
               "n", "o", "p", "q", "r", "s", "t", "u", "v", "w", "x", "y", "z">>
DigitChars == <<"0", "1", "2", "3", "4", "5", "6", "7", "8", "9">>

InSeq(c, sq) == \E i \in 1..Len(sq) : sq[i] = c

\* String.prototype.toLowerCase()
ToLowerChar(c) ==
  IF InSeq(c, UpperCase)
  THEN LowerCase[CHOOSE i \in 1..Len(UpperCase) : UpperCase[i] = c]
  ELSE c
ToLowerStr(t) == [i \in 1..Len(t) |-> ToLowerChar(t[i])]

\* \w of a regular expression: [A-Za-z0-9_]
IsWordChar(c) ==
  InSeq(c, UpperCase) \/ InSeq(c, LowerCase) \/ InSeq(c, DigitChars) \/ c = "_"

\* String.prototype.split(/\W+/): cur is the piece being read, acc the pieces
\* already closed; a run of non-word characters closes one piece
RECURSIVE SplitNonWord(_, _, _, _)
SplitNonWord(t, i, cur, acc) ==
  IF i > Len(t) THEN Append(acc, cur)
  ELSE IF IsWordChar(t[i]) THEN SplitNonWord(t, i + 1, Append(cur, t[i]), acc)
  ELSE IF i > 1 /\ ~IsWordChar(t[i - 1]) THEN SplitNonWord(t, i + 1, cur, acc)
  ELSE SplitNonWord(t, i + 1, <<>>, Append(acc, cur))

\* .filter(Boolean) on strings: the empty string is dropped
NonEmptyStr(w) == Len(w) > 0

\* mutant: the question is split without lower-casing it
QWordsNoLower(question) == SelectSeq(SplitNonWord(question, 1, <<>>, <<>>), NonEmptyStr)

\* const qwords = (q||'').toLowerCase().split(/\W+/).filter(Boolean)
QWords(question) == SelectSeq(SplitNonWord(ToLowerStr(question), 1, <<>>, <<>>), NonEmptyStr)

\* String.prototype.includes(w)
Includes(t, w) ==
  \E k \in 0..(Len(t) - Len(w)) : SubSeq(t, k + 1, k + Len(w)) = w

\* qwords.reduce((s,w)=> s + (c.text.toLowerCase().includes(w)?1:0), 0)
RECURSIVE ScoreChunk(_, _)
ScoreChunk(qwords, text) ==
  IF qwords = <<>> THEN 0
  ELSE ScoreChunk(SubSeq(qwords, 1, Len(qwords) - 1), text)
       + (IF Includes(ToLowerStr(text), qwords[Len(qwords)]) THEN 1 ELSE 0)

\* parsed.chunks.map((c,i)=> ({i, score:cnt}))
ScoreAll(qwords, chunks) ==
  [k \in 1..Len(chunks) |-> [i |-> k - 1, score |-> ScoreChunk(qwords, chunks[k].text)]]

\* mutant: an unstable sort that puts a later equal score first
RECURSIVE InsertDescFront(_, _)
InsertDescFront(x, sorted) ==
  IF sorted = <<>> THEN <<x>>
  ELSE IF sorted[1].score > x.score
       THEN <<sorted[1]>> \o InsertDescFront(x, Tail(sorted))
       ELSE <<x>> \o sorted

\* one insertion of the stable sort: x goes after every element that does
\* not compare greater than it under (a,b)=>b.score-a.score
RECURSIVE InsertDesc(_, _)
InsertDesc(x, sorted) ==
  IF sorted = <<>> THEN <<x>>
  ELSE IF sorted[1].score >= x.score
       THEN <<sorted[1]>> \o InsertDesc(x, Tail(sorted))
       ELSE <<x>> \o sorted

\* .sort((a,b)=>b.score-a.score); Array.prototype.sort is stable
RECURSIVE SortByScoreDesc(_)
SortByScoreDesc(a) ==
  IF a = <<>> THEN <<>>
  ELSE InsertDesc(a[Len(a)], SortByScoreDesc(SubSeq(a, 1, Len(a) - 1)))

topK == 3

PositiveScore(x) == x.score > 0

\* const best = scores.slice(0,3).filter(x=>x.score>0)
Best(scores) == SelectSeq(SubSeq(scores, 1, Min2(topK, Len(scores))), PositiveScore)

(***************************************************************************)
(* Collections and questions the retrieval is run on                       *)
(***************************************************************************)
MaxChunks == 4

CatDog == <<"c", "a", "t", " ", "d", "o", "g">>
FishBird == <<"f", "i", "s", "h", " ", "b", "i", "r", "d">>
DogFish == <<"d", "o", "g", " ", "f", "i", "s", "h">>
Hotdog == <<"H", "o", "t", "D", "o", "g">>

RetrTexts == {CatDog, FishBird, DogFish, Hotdog}

Questions ==
  { <<>>,
    DogFish,
    <<"d", "o", "g", " ", "d", "o", "g">>,
    <<"D", "O", "G">>,
    <<" ", "d", "o", "g", ",", "f", "i", "s", "h", "!">>,
    <<"b", "i", "r", "d", " ", "c", "a", "t", " ", "d", "o", "g", " ", "f", "i", "s", "h">>,
    <<"d", "o">>,
    <<"x", "_", "1">> }

\* chunk lists of up to MaxChunks chunks, the k-th on page k
RetrCollections ==
  UNION { { [k \in 1..n |-> [page |-> k, text |-> f[k]]] : f \in [1..n -> RetrTexts] }
          : n \in 0..MaxChunks }

RetrInit ==
  /\ rq \in Questions
  /\ rChunks \in RetrCollections
  /\ rScores = <<>>
  /\ rBest = <<>>
  /\ retrPc = "ready"
  /\ ChunkIdle /\ SubstIdle /\ AppIdle

\* lines 291-296 of demoLocalAnswer
Retrieve ==
  /\ retrPc = "ready"
  /\ LET scores == SortByScoreDesc(ScoreAll(QWords(rq), rChunks))
     IN  /\ rScores' = scores
         /\ rBest' = Best(scores)
  /\ retrPc' = "done"
  /\ UNCHANGED <<rq, rChunks, notRetrVars>>

RetrNext == Retrieve

SpecRetr == RetrInit /\ [][RetrNext]_vars

(***************************************************************************)
(* Retrieval properties                                                    *)
(***************************************************************************)
\* the occurrences of tokens in the question: the maximal runs of word
\* characters of the lower-cased question, as <<first, last>> positions
LowerQ == ToLowerStr(rq)
TokenStarts ==
  { a \in 1..Len(rq) : IsWordChar(LowerQ[a]) /\ (a = 1 \/ ~IsWordChar(LowerQ[a - 1])) }
TokenEnd(a) ==
  CHOOSE b \in a..Len(rq) :
    /\ \A j \in a..b : IsWordChar(LowerQ[j])
    /\ (b = Len(rq) \/ ~IsWordChar(LowerQ[b + 1]))
TokenSpans == { <<a, TokenEnd(a)>> : a \in TokenStarts }
TokenAt(sp) == SubSeq(LowerQ, sp[1], sp[2])
DistinctTokens == { TokenAt(sp) : sp \in TokenSpans }

Contains(text, w) ==
  \E k \in 1..(Len(text) - Len(w) + 1) :
    \A j \in 1..Len(w) : ToLowerChar(text[k + j - 1]) = w[j]

\* per chunk index (from 0), the number of distinct tokens its text contains
DistinctScores ==
  LET toks == DistinctTokens
  IN  [i \in 0..(Len(rChunks) - 1) |->
         Cardinality({ w \in toks : Contains(rChunks[i + 1].text, w) })]
\* per chunk index (from 0), the number of token occurrences of the question
\* its text contains
OccurrenceScores ==
  LET spans == TokenSpans
  IN  [i \in 0..(Len(rChunks) - 1) |->
         Cardinality({ sp \in spans : Contains(rChunks[i + 1].text, TokenAt(sp)) })]

\* C4 as stated: every chunk's score is the number of distinct question
\* tokens its lower-cased text contains
ScoreCountsDistinctTokens ==
  retrPc = "done" =>
    LET sc == DistinctScores
    IN  /\ Len(rScores) = Len(rChunks)
        /\ \A k \in 1..Len(rScores) : rScores[k].score = sc[rScores[k].i]

\* C4 amended: every chunk's score is the number of question tokens, each
\* occurrence of a repeated token counted, that its lower-cased text contains
\* as a substring
ScoreCountsTokenOccurrences ==
  retrPc = "done" =>
    LET sc == OccurrenceScores
    IN  /\ Len(rScores) = Len(rChunks)
        /\ { rScores[k].i : k \in 1..Len(rScores) } = 0..(Len(rChunks) - 1)
        /\ \A k \in 1..Len(rScores) : rScores[k].score = sc[rScores[k].i]

\* C4 witness: a question that repeats a token gave a chunk a higher score
\* than its number of distinct tokens
ScoreWitness ==
  /\ retrPc = "done"
  /\ \E k \in 1..Len(rScores) :
       /\ rScores[k].score = 2
       /\ DistinctScores[rScores[k].i] = 1

\* whether chunk i ranks before chunk j under the scores sc
RanksBefore(sc, i, j) == sc[i] > sc[j] \/ (sc[i] = sc[j] /\ i < j)

IsExample ==
  /\ rq = DogFish
  /\ Len(rChunks) = 3
  /\ rChunks[1].text = CatDog /\ rChunks[2].text = FishBird /\ rChunks[3].text = DogFish

\* C5: the retriever returns at most 3 chunks, all with score > 0, the best
\* ranked ones, by descending score and equal scores in chunk order; the
\* result is empty exactly when no chunk scores above zero; the example
\* ranks as [2,0,1]
RetrievalRanking ==
  retrPc = "done" =>
    LET sc == OccurrenceScores
        ix == [k \in 1..Len(rBest) |-> rBest[k].i]
    IN  /\ Len(rBest) <= 3
        /\ \A k \in 1..Len(rBest) :
             /\ ix[k] \in 0..(Len(rChunks) - 1)
             /\ rBest[k].score = sc[ix[k]]
             /\ rBest[k].score > 0
        /\ \A j, k \in 1..Len(rBest) : j < k => RanksBefore(sc, ix[j], ix[k])
        /\ \A i \in 0..(Len(rChunks) - 1) :
             (sc[i] > 0 /\ \A k \in 1..Len(rBest) : ix[k] # i) =>
               (Len(rBest) = 3 /\ \A k \in 1..Len(rBest) : RanksBefore(sc, ix[k], i))
        /\ (rBest = <<>>) <=> (\A i \in 0..(Len(rChunks) - 1) : sc[i] = 0)
        /\ IsExample => ix = <<2, 0, 1>>

\* C5 witness: the example collection and question, ranked [2,0,1]
RetrievalRankingWitness ==
  /\ retrPc = "done"
  /\ IsExample
  /\ [k \in 1..Len(rBest) |-> rBest[k].i] = <<2, 0, 1>>

(***************************************************************************)
(* Placeholder substitution (ask: part_000 lines 123-130, Chat.jsx lines   *)
(* 87-95 and 250-258)                                                      *)
(***************************************************************************)
\* the decimal digits of n >= 0, as `${i}` prints them
RECURSIVE Digits(_)
Digits(n) ==
  IF n < 10 THEN <<DigitChars[n + 1]>>
  ELSE Digits(n \div 10) \o <<DigitChars[(n % 10) + 1]>>

\* `<<MATH_${i}>>`
Placeholder(i) == <<"<", "<", "M", "A", "T", "H", "_">> \o Digits(i) \o <<">", ">">>

displayThreshold == 80

\* mutant: an expression of exactly 80 characters is displayed
PreferDisplayGe(m) == Len(m) >= displayThreshold \/ InSeq("\n", m)

\* const preferDisplay = m.length > 80 || m.includes("\n")
PreferDisplay(m) == Len(m) > displayThreshold \/ InSeq("\n", m)

\* const wrapped = preferDisplay ? `\\[${m}\\]` : `\\(${m}\\)`
Wrap(m) ==
  IF PreferDisplay(m)
  THEN <<"\\", "[">> \o m \o <<"\\", "]">>
  ELSE <<"\\", "(">> \o m \o <<"\\", ")">>

\* the positions >= i of md at which sep occurs
MatchesFrom(md, sep, i) ==
  { k \in i..(Len(md) - Len(sep) + 1) : SubSeq(md, k, k + Len(sep) - 1) = sep }

\* md.split(sep).join(rep), from position i on: every occurrence of sep,
\* found left to right without overlap, becomes rep
RECURSIVE SplitJoin(_, _, _, _)
SplitJoin(md, sep, rep, i) ==
  LET ms == MatchesFrom(md, sep, i)
  IN  IF ms = {} THEN SubSeq(md, i, Len(md))
      ELSE LET k == CHOOSE k \in ms : \A j \in ms : k <= j
           IN  SubSeq(md, i, k - 1) \o rep \o SplitJoin(md, sep, rep, k + Len(sep))

(***************************************************************************)
(* Answers the substitution is run on                                      *)
(***************************************************************************)
MaxExprs == 2

Rep(c, n) == [i \in 1..n |-> c]

ValueIs == <<"V", "a", "l", "u", "e", " ", "i", "s", " ">>
XEq1 == <<"x", "=", "1">>

Markdowns ==
  { <<>>,
    ValueIs \o Placeholder(0) \o <<".">>,
    Placeholder(0) \o Placeholder(0),
    Placeholder(0) \o <<" ">> \o Placeholder(1),
    Placeholder(1) \o <<" ">> \o Placeholder(0),
    Placeholder(1),
    Placeholder(0) \o <<" ">> \o Placeholder(2),
    <<"<", "<", "M", "A", "T", "H", "_">> \o XEq1 }

MathExprs ==
  { XEq1,
    <<"a", "\n", "b">>,
    Placeholder(1),
    Rep("y", displayThreshold),
    Rep("y", displayThreshold + 1),
    Rep("y", 90) }

MathLists == UNION { [1..n -> MathExprs] : n \in 0..MaxExprs }

SubstInit ==
  /\ sMd0 \in Markdowns
  /\ sMathList \in MathLists
  /\ sMd = sMd0
  /\ sIdx = 0
  /\ sWrapped = <<>>
  /\ ChunkIdle /\ RetrIdle /\ AppIdle

\* one call of the forEach callback, for the expression at index sIdx
SubstStep ==
  /\ sIdx >= 0 /\ sIdx < Len(sMathList)
  /\ LET m       == sMathList[sIdx + 1]
         wrapped == Wrap(m)
     IN  /\ sMd' = SplitJoin(sMd, Placeholder(sIdx), wrapped, 1)
         /\ sWrapped' = Append(sWrapped, wrapped)
  /\ sIdx' = sIdx + 1
  /\ UNCHANGED <<sMd0, sMathList, notSubstVars>>

SubstNext == SubstStep

SpecSubst == SubstInit /\ [][SubstNext]_vars

(***************************************************************************)
(* Substitution properties                                                 *)
(***************************************************************************)
SubstDone == sIdx = Len(sMathList)

Display(m) == <<"\\", "[">> \o m \o <<"\\", "]">>
Inline(m) == <<"\\", "(">> \o m \o <<"\\", ")">>
HasNewline(m) == \E j \in 1..Len(m) : m[j] = "\n"
Delimited(m) == IF Len(m) > 80 \/ HasNewline(m) THEN Display(m) ELSE Inline(m)

\* whether the placeholder of index k stands at position i of the original
\* markdown
PlaceholderAt(i, k) ==
  LET ph == Placeholder(k)
  IN  i + Len(ph) - 1 <= Len(sMd0) /\ SubSeq(sMd0, i, i + Len(ph) - 1) = ph

\* the original markdown from position i on, each placeholder of an index
\* of the list replaced by that expression, delimited; inserted text is not
\* read again
RECURSIVE Positional(_)
Positional(i) ==
  IF i > Len(sMd0) THEN <<>>
  ELSE IF \E k \in 0..(Len(sMathList) - 1) : PlaceholderAt(i, k)
       THEN LET k == CHOOSE k \in 0..(Len(sMathList) - 1) : PlaceholderAt(i, k)
            IN  Delimited(sMathList[k + 1]) \o Positional(i + Len(Placeholder(k)))
       ELSE <<sMd0[i]>> \o Positional(i + 1)

\* C6 as stated: the result is the original markdown with each placeholder
\* <<MATH_i>> replaced by the wrapped i-th expression, the inserted
\* expressions unchanged
SubstPositionalVerbatim == SubstDone => sMd = Positional(1)

\* C7: an expression is wrapped in \[ \] iff it is longer than 80 characters
\* or contains a newline, and in \( \) otherwise
DelimiterChoice ==
  /\ Len(sWrapped) = (IF sIdx < 0 THEN 0 ELSE sIdx)
  /\ \A k \in 1..Len(sWrapped) :
       LET m == sMathList[k]
       IN  /\ (Len(m) > 80 \/ HasNewline(m)) => sWrapped[k] = Display(m)
           /\ ~(Len(m) > 80 \/ HasNewline(m)) => sWrapped[k] = Inline(m)

\* C7 witness: an expression of exactly 80 characters wrapped inline, one of
\* 81 characters wrapped for display
DelimiterChoiceWitness ==
  /\ Len(sWrapped) = 2
  /\ Len(sMathList[1]) = 80 /\ sWrapped[1] = Inline(sMathList[1])
  /\ Len(sMathList[2]) = 81 /\ sWrapped[2] = Display(sMathList[2])

(***************************************************************************)
(* UploadIndex (UploadIndex.jsx)                                           *)
(***************************************************************************)
\* files selected and chat operations started when the two components run
\* side by side
AppUploads == 1
AppAsks == 1

Str_pdf == <<".", "p", "d", "f">>
Str_documind == <<"d", "o", "c", "u", "m", "i", "n", "d", ":">>

EndsWith(t, suf) ==
  Len(t) >= Len(suf) /\ SubSeq(t, Len(t) - Len(suf) + 1, Len(t)) = suf

\* file.name.replace(/[^a-zA-Z0-9._-]/g, '_')
Sanitize(name) ==
  [i \in 1..Len(name) |->
     IF IsWordChar(name[i]) \/ name[i] \in {".", "-"} THEN name[i] ELSE "_"]

\* file.name.replace(...) + '_' + Date.now()
CollectionName(name, now) == Sanitize(name) \o <<"_">> \o Digits(now)

\* 'documind:' + collectionName
StoreKey(name) == Str_documind \o name

Name_a == <<"a", ".", "p", "d", "f">>
Name_b == <<"m", "y", " ", "b", ".", "P", "D", "F">>
Name_n == <<"n", ".", "t", "x", "t">>
Name_two == <<"t", "w", "o", ".", "p", "d", "f">>

\* the files a user may pick: name, the text pdf.js gives for each page. The
\* pages of two.pdf normalize to 2000 and to 120 characters
Files ==
  { [name |-> Name_a,
     pages |-> << MkText(60, {}, " ") >>],
    [name |-> Name_b,
     pages |-> << MkText(130, {10, 11}, " "), MkText(40, {}, " ") >>],
    [name |-> Name_n, pages |-> <<>>],
    [name |-> Name_two,
     pages |-> << MkText(2001, {10, 11}, " "), MkText(120, {}, " ") >>] }

\* the files at hand when the chat runs beside the upload, and when the
\* upload runs alone
SmallDisk == {Name_b, Name_n}
FullDisk == {f.name : f \in Files}

\* !file || !file.name.toLowerCase().endsWith('.pdf'); no file is the empty name
Rejected(f) == f.name = <<>> \/ ~EndsWith(ToLowerStr(f.name), Str_pdf)

Status(msg, a, b) == [msg |-> msg, a |-> a, b |-> b]

\* a remote request and how it ended: "pending" | "ok" | "failed"
Req(req, res) == [req |-> req, res |-> res]

\* the request sent last has ended with res
Settle(reqs, res) == [reqs EXCEPT ![Len(reqs)].res = res]

\* 5 * 1024 * 1024
quotaThreshold == 5 * 1024 * 1024

NoEstimate == [kind |-> "notasked", quota |-> 0, usage |-> 0, hasUsage |-> FALSE]

\* what navigator.storage.estimate() may resolve to: quota and usage in bytes
Estimates ==
  { [kind |-> "value", quota |-> 2 * quotaThreshold, usage |-> 0, hasUsage |-> TRUE],
    [kind |-> "value", quota |-> 2 * quotaThreshold, usage |-> quotaThreshold, hasUsage |-> TRUE],
    [kind |-> "value", quota |-> 2 * quotaThreshold, usage |-> quotaThreshold + 1, hasUsage |-> TRUE],
    [kind |-> "value", quota |-> 0, usage |-> 0, hasUsage |-> TRUE],
    [kind |-> "value", quota |-> quotaThreshold, usage |-> 0, hasUsage |-> FALSE] }

\* estimate.quota && estimate.usage !== undefined && free < 5 * 1024 * 1024
LowQuota(est) ==
  /\ est.kind = "value"
  /\ est.quota # 0
  /\ est.hasUsage
  /\ est.quota - est.usage < quotaThreshold

\* mutant: every chunk carries the number of the first page
RECURSIVE ChunkPagesUntagged(_, _)
ChunkPagesUntagged(pages, acc) ==
  IF pages = <<>> THEN acc
  ELSE ChunkPagesUntagged(Tail(pages),
                          ChunkLoop(Normalize(pages[1].text), 1, 0, acc))

\* pages.forEach(p => { ... }) over all pages
RECURSIVE ChunkPages(_, _)
ChunkPages(pages, acc) ==
  IF pages = <<>> THEN acc
  ELSE ChunkPages(Tail(pages),
                  ChunkLoop(Normalize(pages[1].text), pages[1].page, 0, acc))

\* mutant: the catch leaves the progress where the failure happened
FailUploadNoReset(why) ==
  /\ status' = Status("Error", 0, 0)
  /\ progress' = progress
  /\ isProcessing' = FALSE
  /\ resetTimers' = resetTimers + 1
  /\ upc' = "idle"

\* the catch and finally of handleFile (lines 194-204)
FailUpload(why) ==
  /\ status' = Status("Error", 0, 0)
  /\ progress' = 0
  /\ isProcessing' = FALSE
  /\ resetTimers' = resetTimers + 1
  /\ upc' = "idle"

\* lines 110-118: the library is there; read the file
StartReading ==
  /\ status' = Status("Reading PDF...", 0, 0)
  /\ progress' = 10
  /\ upc' = "arrayBuffer"

\* the input's onChange (lines 86-109); the input is disabled while
\* isProcessing
SelectFile ==
  /\ upc = "idle" /\ ~isProcessing /\ uploads < uploadCap
  /\ \E f \in Files :
       /\ f.name \in disk
       /\ uFile' = f
       /\ uploads' = uploads + 1
       /\ clock' = clock + 1
       /\ IF Rejected(f)
          THEN /\ status' = Status("Please select a PDF file", 0, 0)
               /\ UNCHANGED <<progress, isProcessing, upc>>
          ELSE /\ isProcessing' = TRUE
               /\ IF pdfjsLib
                  THEN StartReading
                  ELSE /\ status' = Status("Loading PDF library...", 0, 0)
                       /\ progress' = 5
                       /\ upc' = "script"
  /\ uI' = 0 /\ uPages' = <<>> /\ uChunks' = <<>> /\ uName' = <<>> /\ uPayload' = <<>>
  /\ uEstimate' = NoEstimate /\ putInvoked' = FALSE /\ saveOutcome' = "none"
  /\ uReqs' = <<>> /\ uIndexed' = FALSE
  /\ UNCHANGED <<pdfjsLib, idb, localStore, currentPage, totalPages, resetTimers,
                 collection, chatVars, indexSettled, capVars, notAppVars>>

\* script.onload (line 104), the library defined by the script
ScriptLoaded ==
  /\ upc = "script"
  /\ pdfjsLib' = TRUE
  /\ StartReading
  /\ UNCHANGED <<idb, localStore, clock, currentPage, totalPages, isProcessing,
                 uFile, uI, uPages, uChunks, uName, uPayload, uEstimate, putInvoked,
                 saveOutcome, resetTimers, uploads, collection, chatVars, capVars, notAppVars>>
  /\ UNCHANGED <<uReqs, uIndexed, indexSettled>>

\* script.onerror (line 105), or the script defines no library (line 110)
ScriptFailed ==
  /\ upc = "script"
  /\ FailUpload("script")
  /\ UNCHANGED <<browserVars, currentPage, totalPages, uFile, uI, uPages, uChunks,
                 uName, uPayload, uEstimate, putInvoked, saveOutcome, uploads,
                 collection, chatVars, capVars, notAppVars>>
  /\ UNCHANGED <<uReqs, uIndexed, indexSettled>>

\* file.arrayBuffer() resolves (lines 118-122)
FileRead ==
  /\ upc = "arrayBuffer"
  /\ progress' = 20
  /\ upc' = "getDocument"
  /\ UNCHANGED <<browserVars, status, currentPage, totalPages, isProcessing, uFile,
                 uI, uPages, uChunks, uName, uPayload, uEstimate, putInvoked,
                 saveOutcome, resetTimers, uploads, collection, chatVars, capVars, notAppVars>>
  /\ UNCHANGED <<uReqs, uIndexed, indexSettled>>

\* loadingTask.promise resolves (lines 122-130)
DocumentLoaded ==
  /\ upc = "getDocument"
  /\ totalPages' = Len(uFile.pages)
  /\ status' = Status("Extracting pages...", Len(uFile.pages), 0)
  /\ uPages' = <<>>
  /\ IF 1 <= Len(uFile.pages)
     THEN /\ uI' = 1 /\ currentPage' = 1 /\ upc' = "getPage"
     ELSE /\ uI' = 1 /\ upc' = "chunk" /\ UNCHANGED currentPage
  /\ UNCHANGED <<browserVars, progress, isProcessing, uFile, uChunks, uName,
                 uPayload, uEstimate, putInvoked, saveOutcome, resetTimers, uploads,
                 collection, chatVars, capVars, notAppVars>>
  /\ UNCHANGED <<uReqs, uIndexed, indexSettled>>

\* file.arrayBuffer(), getDocument, getPage or getTextContent rejects
ExtractionFailed ==
  /\ upc \in {"arrayBuffer", "getDocument", "getPage"}
  /\ FailUpload("extraction")
  /\ UNCHANGED <<browserVars, currentPage, totalPages, uFile, uI, uPages, uChunks,
                 uName, uPayload, uEstimate, putInvoked, saveOutcome, uploads,
                 collection, chatVars, capVars, notAppVars>>
  /\ UNCHANGED <<uReqs, uIndexed, indexSettled>>

\* getPage(i) and getTextContent() resolve (lines 130-137)
PageExtracted ==
  /\ upc = "getPage"
  /\ uPages' = Append(uPages, [page |-> uI, text |-> uFile.pages[uI]])
  /\ progress' = ((uI * 60) \div Len(uFile.pages)) + 20
  /\ upc' = "pageDelay"
  /\ UNCHANGED <<browserVars, status, currentPage, totalPages, isProcessing, uFile,
                 uI, uChunks, uName, uPayload, uEstimate, putInvoked, saveOutcome,
                 resetTimers, uploads, collection, chatVars, capVars, notAppVars>>
  /\ UNCHANGED <<uReqs, uIndexed, indexSettled>>

\* the 50 ms pause ends (line 137) and the loop goes on (lines 128-130)
NextPage ==
  /\ upc = "pageDelay"
  /\ uI < Len(uFile.pages)
  /\ uI' = uI + 1
  /\ currentPage' = uI + 1
  /\ upc' = "getPage"
  /\ UNCHANGED <<browserVars, status, progress, totalPages, isProcessing, uFile,
                 uPages, uChunks, uName, uPayload, uEstimate, putInvoked,
                 saveOutcome, resetTimers, uploads, collection, chatVars, capVars, notAppVars>>
  /\ UNCHANGED <<uReqs, uIndexed, indexSettled>>

\* the call of idbPut (line 83): openDB() is awaited first
CallIdbPut ==
  /\ putInvoked' = TRUE
  /\ upc' = "openDB"

\* the loop is over: chunking, the payload, and trySaveLocally up to its
\* first await (lines 140-173 and 62-66)
ChunkAndSave ==
  /\ upc \in {"pageDelay", "chunk"}
  /\ ~(upc = "pageDelay" /\ uI < Len(uFile.pages))
  /\ LET chunks == ChunkPages(uPages, <<>>)
         name   == CollectionName(uFile.name, clock)
     IN  /\ uChunks' = chunks
         /\ uName' = name
         /\ uPayload' = [source |-> uFile.name, chunks |-> chunks,
                         totalPages |-> Len(uFile.pages), processedAt |-> clock]
  /\ progress' = 95
  /\ status' = Status("Saving index locally (IndexedDB)...", 0, 0)
  /\ \/ /\ upc' = "estimate"
        /\ UNCHANGED <<putInvoked, uEstimate>>
     \/ \* navigator.storage or navigator.storage.estimate is missing
        /\ uEstimate' = [NoEstimate EXCEPT !.kind = "noapi"]
        /\ CallIdbPut
  /\ UNCHANGED <<browserVars, currentPage, totalPages, isProcessing, uFile, uI,
                 uPages, saveOutcome, resetTimers, uploads, collection, chatVars, capVars, notAppVars>>
  /\ UNCHANGED <<uReqs, uIndexed, indexSettled>>

\* navigator.storage.estimate() settles (lines 66-83): a low estimate throws
\* inside the try, the catch logs it, and idbPut is called in every case
EstimateSettled ==
  /\ upc = "estimate"
  /\ \E est \in Estimates \cup {[NoEstimate EXCEPT !.kind = "rejected"]} :
       uEstimate' = est
  /\ CallIdbPut
  /\ UNCHANGED <<browserVars, uiVars, uFile, uI, uPages, uChunks, uName, uPayload,
                 saveOutcome, resetTimers, uploads, collection, chatVars, capVars, notAppVars>>
  /\ UNCHANGED <<uReqs, uIndexed, indexSettled>>

\* openDB() resolves and store.put(value, key) is issued (lines 39-43)
DbOpened ==
  /\ upc = "openDB"
  /\ upc' = "put"
  /\ UNCHANGED <<browserVars, uiVars, uFile, uI, uPages, uChunks, uName, uPayload,
                 uEstimate, putInvoked, saveOutcome, resetTimers, uploads, collection,
                 chatVars, capVars, notAppVars>>
  /\ UNCHANGED <<uReqs, uIndexed, indexSettled>>

\* lines 181-186: progress 100, onIndexed, and the POST of /api/index
AfterSave ==
  /\ progress' = 100
  /\ collection' = uName
  /\ uIndexed' = TRUE
  /\ uReqs' = Append(uReqs, Req("index", "pending"))
  /\ upc' = "post"

\* r.onsuccess (line 44): idbPut resolves and the save has succeeded (lines
\* 174, 181-186). The transaction commits the whole record, replacing any
\* value under the key
PutSucceeded ==
  /\ upc = "put"
  /\ \/ idb' = [k \in (DOMAIN idb) \cup {StoreKey(uName)} |->
                  IF k = StoreKey(uName) THEN uPayload ELSE idb[k]]
     \/ \* the transaction aborts after the request succeeded: nothing is
        \* written, and idbPut has resolved all the same
        idb' = idb
  /\ saveOutcome' = "saved"
  /\ status' = Status("Indexed (saved locally).", Len(uChunks), Len(uFile.pages))
  /\ AfterSave
  /\ UNCHANGED <<pdfjsLib, localStore, clock, currentPage, totalPages, isProcessing,
                 uFile, uI, uPages, uChunks, uName, uPayload, uEstimate, putInvoked,
                 resetTimers, uploads, chatVars, indexSettled, capVars, notAppVars>>

\* mutant: the collection is written in two puts, and the second one fails
\* after the first has stored the record without its chunks
PutFailedPartial ==
  /\ upc \in {"openDB", "put"}
  /\ idb' = [k \in (DOMAIN idb) \cup {StoreKey(uName)} |->
               IF k = StoreKey(uName) THEN [uPayload EXCEPT !.chunks = <<>>]
               ELSE idb[k]]
  /\ saveOutcome' = "skipped"
  /\ status' = Status("Indexed (local save skipped).", Len(uChunks), Len(uFile.pages))
  /\ AfterSave
  /\ UNCHANGED <<pdfjsLib, localStore, clock, currentPage, totalPages, isProcessing,
                 uFile, uI, uPages, uChunks, uName, uPayload, uEstimate, putInvoked,
                 resetTimers, uploads, chatVars, indexSettled, capVars, notAppVars>>

\* mutant: a failed save is not caught and ends the upload as an error
PutFailedFatal ==
  /\ upc \in {"openDB", "put"}
  /\ saveOutcome' = "skipped"
  /\ FailUpload("save")
  /\ UNCHANGED <<browserVars, currentPage, totalPages, uFile, uI,
                 uPages, uChunks, uName, uPayload, uEstimate, putInvoked,
                 uploads, uReqs, uIndexed, collection, chatVars, indexSettled,
                 capVars, notAppVars>>

\* openDB() rejects or r.onerror (lines 31, 45): the save is skipped
\* (lines 175-186)
PutFailed ==
  /\ upc \in {"openDB", "put"}
  /\ saveOutcome' = "skipped"
  /\ status' = Status("Indexed (local save skipped).", Len(uChunks), Len(uFile.pages))
  /\ AfterSave
  /\ UNCHANGED <<browserVars, currentPage, totalPages, isProcessing, uFile, uI,
                 uPages, uChunks, uName, uPayload, uEstimate, putInvoked, resetTimers,
                 uploads, chatVars, indexSettled, capVars, notAppVars>>

\* axios.post settles either way and handleFile returns (lines 186-204)
PostSettled ==
  /\ upc = "post"
  /\ \E res \in {"ok", "failed"} : uReqs' = Settle(uReqs, res)
  /\ indexSettled' = indexSettled \cup {uName}
  /\ isProcessing' = FALSE
  /\ resetTimers' = resetTimers + 1
  /\ upc' = "idle"
  /\ uEstimate' = NoEstimate
  /\ UNCHANGED <<browserVars, status, progress, currentPage, totalPages, uFile, uI,
                 uPages, uChunks, uName, uPayload, putInvoked, saveOutcome,
                 uploads, uIndexed, collection, chatVars, capVars, notAppVars>>

\* a setTimeout(..., 2000) callback of the finally block runs (lines 200-203)
ResetTimerFires ==
  /\ resetTimers > 0
  /\ resetTimers' = resetTimers - 1
  /\ currentPage' = 0
  /\ totalPages' = 0
  /\ UNCHANGED <<browserVars, status, progress, isProcessing, upc, uFile, uI, uPages,
                 uChunks, uName, uPayload, uEstimate, putInvoked, saveOutcome, uploads,
                 collection, chatVars, capVars, notAppVars>>
  /\ UNCHANGED <<uReqs, uIndexed, indexSettled>>

UploadNext ==
  \/ SelectFile \/ ScriptLoaded \/ ScriptFailed \/ FileRead \/ DocumentLoaded
  \/ ExtractionFailed \/ PageExtracted \/ NextPage \/ ChunkAndSave
  \/ EstimateSettled \/ DbOpened \/ PutSucceeded \/ PutFailed \/ PostSettled
  \/ ResetTimerFires

(***************************************************************************)
(* Chat (part_000; Chat.jsx)                                               *)
(***************************************************************************)
Dog == <<"d", "o", "g">>
ChatQuestions == {<<>>, Dog}

Content(kind, body) == [kind |-> kind, body |-> body]
Msg(type, kind, body) == [type |-> type, kind |-> kind, body |-> body]

\* what POST /api/chat may give: fetch rejects, a non-OK status, a body that
\* is not JSON, or the parsed body `data`
ChatOutcomes ==
  { [shape |-> "reject", md |-> <<>>, math |-> <<>>, sources |-> <<>>],
    [shape |-> "notok", md |-> <<>>, math |-> <<>>, sources |-> <<>>],
    [shape |-> "null", md |-> <<>>, math |-> <<>>, sources |-> <<>>],
    [shape |-> "error", md |-> <<"n", "o">>, math |-> <<>>, sources |-> <<>>],
    [shape |-> "answer", md |-> ValueIs \o Placeholder(0) \o <<".">>,
     math |-> <<XEq1>>, sources |-> <<"p", "1">>],
    [shape |-> "answer", md |-> <<"o", "k">>, math |-> <<>>, sources |-> <<>>],
    [shape |-> "string", md |-> <<"h", "i">>, math |-> <<>>, sources |-> <<>>],
    [shape |-> "unknown", md |-> <<>>, math |-> <<>>, sources |-> <<>>] }

\* no response yet
NoResp == [shape |-> "none", md |-> <<>>, math |-> <<>>, sources |-> <<>>]

\* mathList.forEach((m, i) => { ... }) from index i on
RECURSIVE SubstAll(_, _, _)
SubstAll(md, mathList, i) ==
  IF i >= Len(mathList) THEN md
  ELSE SubstAll(SplitJoin(md, Placeholder(i), Wrap(mathList[i + 1]), 1), mathList, i + 1)

\* the message shown for a reply: setMessages appends it, setAnswerHtml
\* replaces the answer
ShowReply(kind, body) ==
  IF chatBuild = "messages"
  THEN /\ messages' = Append(messages, Msg("bot", kind, body))
       /\ UNCHANGED answerHtml
  ELSE /\ answerHtml' = Content(kind, body)
       /\ UNCHANGED messages

\* The user types the question typed (onChange, setQ) and ask runs up to its
\* first await (part_000 79-91; Chat.jsx 39-55, 212-222). The messages build
\* calls ask on Enter in the textarea, which is disabled while loading; the
\* answerHtml build only from its button, disabled without a collection
AskStart ==
  /\ apc = "idle" /\ ~chatLoading /\ asks < askCap
  /\ chatBuild = "answerHtml" => collection # <<>>
  /\ asks' = asks + 1
  /\ \E typed \in ChatQuestions :
       IF collection = <<>>
       THEN /\ IF chatBuild = "messages"
               THEN /\ messages' = messages \o <<Msg("user", "text", typed),
                                                 Msg("bot", "IndexFirst", <<>>)>>
                    /\ q' = <<>>
                    /\ UNCHANGED answerHtml
               ELSE /\ answerHtml' = Content("IndexFirst", <<>>)
                    /\ q' = typed
                    /\ UNCHANGED messages
            /\ chatLast' = "indexFirst"
            /\ aReqs' = <<>>
            /\ reqCollection' = <<>>
            /\ aResp' = NoResp
            /\ UNCHANGED <<chatLoading, apc, userMessage>>
       ELSE /\ IF chatBuild = "messages"
               THEN /\ userMessage' = typed
                    /\ messages' = Append(messages, Msg("user", "text", typed))
                    /\ q' = <<>>
                    /\ UNCHANGED answerHtml
               ELSE /\ answerHtml' = Content("Thinking", <<>>)
                    /\ q' = typed
                    /\ UNCHANGED <<messages, userMessage>>
            /\ chatLoading' = TRUE
            /\ chatLast' = "pending"
            /\ aReqs' = <<Req("health", "pending")>>
            /\ reqCollection' = collection
            /\ aResp' = NoResp
            /\ apc' = "health"
  /\ UNCHANGED <<browserVars, uploadVars, collection, chatBuild, sources, demoKey,
                 demoStored, indexSettled, capVars, notAppVars>>

\* mutant: the notice is shown but the loading flag stays set
HealthFailedStillLoading ==
  /\ apc = "health"
  /\ ShowReply("BackendDown", <<>>)
  /\ chatLast' = "healthFailed"
  /\ aReqs' = Settle(aReqs, "failed")
  /\ apc' = "idle"
  /\ UNCHANGED <<browserVars, uploadVars, collection, chatBuild, q, sources,
                 chatLoading, userMessage, asks, demoKey, demoStored,
                 reqCollection, aResp, indexSettled, capVars, notAppVars>>

\* mutant: a failed health check is tried once more
HealthFailedRetry ==
  /\ apc = "health"
  /\ IF Len(aReqs) < 2
     THEN /\ aReqs' = Append(Settle(aReqs, "failed"), Req("health", "pending"))
          /\ UNCHANGED <<messages, answerHtml, chatLoading, chatLast, apc>>
     ELSE /\ ShowReply("BackendDown", <<>>)
          /\ chatLoading' = FALSE
          /\ chatLast' = "healthFailed"
          /\ aReqs' = Settle(aReqs, "failed")
          /\ apc' = "idle"
  /\ UNCHANGED <<browserVars, uploadVars, collection, chatBuild, q, sources,
                 userMessage, asks, demoKey, demoStored,
                 reqCollection, aResp, indexSettled, capVars, notAppVars>>

\* mutant: the failed health check is ignored and POST /api/chat is sent
HealthFailedChatAnyway ==
  /\ apc = "health"
  /\ apc' = "chat"
  /\ aReqs' = Append(Settle(aReqs, "failed"), Req("chat", "pending"))
  /\ UNCHANGED <<browserVars, uploadVars, collection, chatBuild, q, messages,
                 answerHtml, sources, chatLoading, userMessage, chatLast, asks,
                 demoKey, demoStored, reqCollection, aResp, indexSettled, capVars,
                 notAppVars>>

\* checkBackend gives false: GET /api/health rejected or was not OK
\* (part_000 92-99; Chat.jsx 56-62, 223-227)
HealthFailed ==
  /\ apc = "health"
  /\ ShowReply("BackendDown", <<>>)
  /\ chatLoading' = FALSE
  /\ chatLast' = "healthFailed"
  /\ aReqs' = Settle(aReqs, "failed")
  /\ apc' = "idle"
  /\ UNCHANGED <<browserVars, uploadVars, collection, chatBuild, q, sources,
                 userMessage, asks, demoKey, demoStored,
                 reqCollection, aResp, indexSettled, capVars, notAppVars>>

\* checkBackend gives true and POST /api/chat is sent (part_000 101-110)
HealthOk ==
  /\ apc = "health"
  /\ apc' = "chat"
  /\ aReqs' = Append(Settle(aReqs, "ok"), Req("chat", "pending"))
  /\ UNCHANGED <<browserVars, uploadVars, collection, chatBuild, q, messages,
                 answerHtml, sources, chatLoading, userMessage, chatLast, asks,
                 demoKey, demoStored,
                 reqCollection, aResp, indexSettled, capVars, notAppVars>>

\* fetch and resp.json() settle (part_000 112-163; Chat.jsx 72-120, 237-281)
ChatSettled ==
  /\ apc = "chat"
  /\ \E r \in ChatOutcomes :
       /\ aReqs' = Settle(aReqs, IF r.shape \in {"reject", "notok"} THEN "failed" ELSE "ok")
       /\ aResp' = r
       /\ CASE r.shape \in {"reject", "notok", "null"} ->
              /\ ShowReply("RequestFailed", <<>>)
              /\ chatLast' = "requestFailed"
              /\ UNCHANGED sources
         [] r.shape = "error" ->
              /\ ShowReply("BackendError", r.md)
              /\ chatLast' = "backendError"
              /\ UNCHANGED sources
         [] r.shape = "answer" ->
              /\ ShowReply("Answer", SubstAll(r.md, r.math, 0))
              /\ sources' = r.sources
              /\ chatLast' = "answer"
         [] r.shape = "string" ->
              /\ ShowReply("Raw", r.md)
              /\ chatLast' = "raw"
              /\ UNCHANGED sources
         [] OTHER ->
              /\ ShowReply("Unexpected", <<>>)
              /\ chatLast' = "unexpected"
              /\ UNCHANGED sources
  /\ chatLoading' = FALSE
  /\ apc' = "idle"
  /\ UNCHANGED <<browserVars, uploadVars, collection, chatBuild, q, userMessage,
                 asks, demoKey, demoStored, reqCollection, indexSettled, capVars,
                 notAppVars>>

\* localStorage.getItem(key), null when the key is absent
GetItem(key) == IF key \in DOMAIN localStore THEN localStore[key] ELSE <<>>

\* The user types the question and presses the Demo local button
\* (Chat.jsx 285-301), disabled while loading
DemoLocalAnswer ==
  /\ chatBuild = "answerHtml" /\ ~chatLoading /\ asks < askCap
  /\ asks' = asks + 1
  /\ chatLast' = "demo"
  /\ aReqs' = <<>> /\ reqCollection' = <<>> /\ aResp' = NoResp
  /\ \E typed \in ChatQuestions :
       /\ q' = typed
       /\ IF collection = <<>>
          THEN /\ answerHtml' = Content("IndexFirstDemo", <<>>)
               /\ UNCHANGED <<demoKey, demoStored>>
          ELSE LET stored == GetItem(StoreKey(collection))
               IN  /\ demoKey' = StoreKey(collection)
                   /\ demoStored' = stored
                   /\ IF stored = <<>>
                      THEN answerHtml' = Content("NoLocalIndex", <<>>)
                      ELSE LET best == Best(SortByScoreDesc(
                                              ScoreAll(QWords(typed), stored.chunks)))
                           IN  IF best = <<>>
                               THEN answerHtml' = Content("NoRelevantContext", <<>>)
                               ELSE answerHtml' = Content("Demo", best)
  /\ UNCHANGED <<browserVars, uploadVars, collection, chatBuild, messages,
                 sources, chatLoading, apc, userMessage, indexSettled, capVars, notAppVars>>

ChatNext ==
  \/ AskStart \/ HealthFailed \/ HealthOk \/ ChatSettled \/ DemoLocalAnswer

\* the page as loaded: no library yet, nothing stored; the component states
\* are the useState initial values
BrowserStart ==
  /\ pdfjsLib = FALSE
  /\ idb = <<>>
  /\ localStore = <<>>
  /\ clock = 0
  /\ indexSettled = {}

UploadStart ==
  /\ status = Status("No file uploaded", 0, 0)
  /\ progress = 0 /\ currentPage = 0 /\ totalPages = 0 /\ isProcessing = FALSE
  /\ upc = "idle"
  /\ uFile = [name |-> <<>>, pages |-> <<>>]
  /\ uI = 0 /\ uPages = <<>> /\ uChunks = <<>> /\ uName = <<>> /\ uPayload = <<>>
  /\ uEstimate = NoEstimate /\ putInvoked = FALSE /\ saveOutcome = "none"
  /\ resetTimers = 0 /\ uploads = 0
  /\ uReqs = <<>> /\ uIndexed = FALSE

ChatStart ==
  /\ chatBuild \in {"messages", "answerHtml"}
  /\ q = <<>> /\ messages = <<>> /\ answerHtml = Content("NoAnswerYet", <<>>)
  /\ sources = <<>> /\ chatLoading = FALSE /\ apc = "idle" /\ userMessage = <<>>
  /\ chatLast = "none" /\ asks = 0 /\ demoKey = <<>> /\ demoStored = <<>>
  /\ aReqs = <<>> /\ reqCollection = <<>> /\ aResp = NoResp

\* App: UploadIndex and Chat side by side, no collection yet
AppInit ==
  /\ BrowserStart /\ UploadStart /\ ChatStart
  /\ collection = <<>>
  /\ disk = SmallDisk /\ uploadCap = AppUploads /\ askCap = AppAsks
  /\ ChunkIdle /\ RetrIdle /\ SubstIdle

Next == UploadNext \/ ChatNext

Spec == AppInit /\ [][Next]_vars

\* UploadIndex alone
MaxUploads == 2

UploadInit ==
  /\ BrowserStart /\ UploadStart /\ ChatIdle
  /\ collection = <<>>
  /\ disk = FullDisk /\ uploadCap = MaxUploads
  /\ ChunkIdle /\ RetrIdle /\ SubstIdle

SpecUpload == UploadInit /\ [][UploadNext]_vars

\* Chat alone, with the collection prop it is given
MaxAsks == 2

Collections == {<<>>, CollectionName(Name_a, 1)}

ChatInit ==
  /\ BrowserStart /\ UploadIdle /\ ChatStart
  /\ collection \in Collections
  /\ askCap = MaxAsks
  /\ ChunkIdle /\ RetrIdle /\ SubstIdle

SpecChat == ChatInit /\ [][ChatNext]_vars

(***************************************************************************)
(* Properties of the save and of the chat                                  *)
(***************************************************************************)
\* C1: whenever the storage estimate of a save reports free space
\* (quota - usage) below 5 MB, the save fails and the store write (idbPut,
\* store.put) is never invoked for that save
QuotaGuard ==
  LowQuota(uEstimate) => (~putInvoked /\ saveOutcome # "saved")

\* the reply the user sees: the last message of the list, or the answer pane
ReplyShown ==
  IF chatBuild = "messages"
  THEN IF messages = <<>> THEN Content("NoAnswerYet", <<>>)
       ELSE Content(messages[Len(messages)].kind, messages[Len(messages)].body)
  ELSE answerHtml

\* ask has ended on a failed health pre-flight for an indexed collection
HealthFailedIndexed == chatLast = "healthFailed" /\ collection # <<>>

\* C2 as stated: when a query is asked for an indexed collection and the
\* health pre-flight fails, the reply is the local retriever's answer over
\* the stored collection
LocalFallback ==
  HealthFailedIndexed =>
    /\ ReplyShown.kind \in {"Demo", "NoRelevantContext"}
    /\ demoKey = StoreKey(collection)

\* C2 as amended: when a query is asked for an indexed collection and the
\* health pre-flight fails, ask ends with the notice that the backend is not
\* running, loading cleared and no chat request in flight
HealthFailureNotice ==
  HealthFailedIndexed =>
    /\ ReplyShown = Content("BackendDown", <<>>)
    /\ ~chatLoading
    /\ apc = "idle"

HealthFailureWitness ==
  /\ HealthFailedIndexed
  /\ saveOutcome = "saved"
  /\ ReplyShown = Content("BackendDown", <<>>)

\* C3: after the ingestion has put collection c under the key
\* "documind:<collectionName>", the get of local retrieval for that key
\* gives a value equal to c
PersistenceRoundTrip ==
  (demoKey # <<>> /\ demoKey \in DOMAIN idb) => demoStored = idb[demoKey]

(***************************************************************************)
(* Properties of the ingestion pipeline                                    *)
(***************************************************************************)
\* the upload at hand has ended in the failed state
UploadFailed == status.msg = "Error"

\* C11: if library loading, reading or page extraction fails, the pipeline
\* ends in the failed state (status "Error: ...", progress 0), and an upload
\* that ended there has performed no store write, sent no index submission
\* and not called onIndexed
NoPartialCollection ==
  /\ [](UploadFailed =>
          /\ progress = 0 /\ upc = "idle" /\ ~isProcessing
          /\ ~putInvoked /\ saveOutcome = "none"
          /\ uReqs = <<>>
          /\ ~uIndexed)
  /\ [][(upc \in {"script", "arrayBuffer", "getDocument", "getPage"} /\ upc' = "idle")
          => (UploadFailed' /\ idb' = idb /\ collection' = collection)]_vars

\* C11 witness: the second page of a file failed after the first was read
NoPartialCollectionWitness ==
  /\ UploadFailed
  /\ Len(uPages) = 1 /\ Len(uFile.pages) = 2
  /\ idb = <<>> /\ collection = <<>>

\* the local save of the upload at hand has failed
SaveFailed == saveOutcome = "skipped"

\* C12: if the local save fails after the chunking, the pipeline does not
\* enter the failed state: it reaches progress 100, calls onIndexed with the
\* collection name and sends the index submission
PersistenceFailureNonFatal ==
  SaveFailed =>
    /\ ~UploadFailed
    /\ status = Status("Indexed (local save skipped).", Len(uChunks), Len(uFile.pages))
    /\ progress = 100
    /\ uIndexed /\ collection = uName /\ uName # <<>>
    /\ Len(uReqs) = 1 /\ uReqs[1].req = "index"

\* C12 witness: the save failed, the collection was handed over and the
\* index submission has settled
PersistenceFailureWitness ==
  /\ SaveFailed /\ upc = "idle"
  /\ collection = uName /\ uName \in indexSettled
  /\ StoreKey(uName) \notin DOMAIN idb

(***************************************************************************)
(* Properties of the remote calls                                          *)
(***************************************************************************)
\* every request of the operation other than GET /api/health was sent after
\* a GET /api/health of the same operation had returned success
Preflighted(reqs) ==
  \A k \in 1..Len(reqs) :
    reqs[k].req # "health" =>
      \E j \in 1..(k - 1) : reqs[j].req = "health" /\ reqs[j].res = "ok"

\* C13 as stated: POST /api/chat and POST /api/index are sent only after a
\* GET /api/health issued for that operation has returned success
HealthPreflight == Preflighted(aReqs) /\ Preflighted(uReqs)

\* C13 as amended: POST /api/chat is sent only after the GET /api/health of
\* the same ask has returned success; an upload sends POST /api/index
\* without any GET /api/health
HealthPreflightOfChat ==
  /\ Preflighted(aReqs)
  /\ \A k \in 1..Len(uReqs) : uReqs[k].req = "index"

\* C13 witness: a chat request sent after its health check, and an index
\* submission sent without one
HealthPreflightWitness ==
  /\ Len(aReqs) = 2 /\ aReqs[1] = Req("health", "ok") /\ aReqs[2].req = "chat"
  /\ Len(uReqs) = 1 /\ uReqs[1].req = "index"

(***************************************************************************)
(* Properties of the chat replies                                          *)
(***************************************************************************)
\* the ask at hand has reached the remote call and the call has settled
ChatCallSettled == aResp.shape # "none"

\* C14: for a query that reached the remote call, a network failure or a
\* non-OK status shows "Request failed...", a response with an error field
\* shows "Backend error...", a response of unrecognized shape shows
\* "Unexpected backend response...", and the loading flag is cleared
ChatFailureSurfacing ==
  ChatCallSettled =>
    /\ aResp.shape \in {"reject", "notok"} => ReplyShown.kind = "RequestFailed"
    /\ aResp.shape = "error" => ReplyShown.kind = "BackendError"
    /\ aResp.shape \in {"null", "unknown"} => ReplyShown.kind = "Unexpected"
    /\ ~chatLoading

(***************************************************************************)
(* Properties of the stored collection                                     *)
(***************************************************************************)
\* the store after the whole collection c was put under key
StoreWith(store, key, c) ==
  [k \in (DOMAIN store) \cup {key} |-> IF k = key THEN c ELSE store[k]]

\* C15: the write of a collection is one transaction: the store changes
\* only by a successful put, which places the whole collection under its
\* key and leaves every other key alone; a write that fails leaves the
\* store as it was, so whoever reads a key finds the prior value or the
\* whole new collection
AtomicPersistence ==
  /\ [][idb' # idb =>
          /\ upc = "put" /\ saveOutcome' = "saved"
          /\ idb' = StoreWith(idb, StoreKey(uName), uPayload)]_vars
  /\ [][(saveOutcome # "skipped" /\ saveOutcome' = "skipped") => idb' = idb]_vars
  /\ [](\A k \in DOMAIN idb :
          /\ DOMAIN idb[k] = {"source", "chunks", "totalPages", "processedAt"}
          /\ k = StoreKey(CollectionName(idb[k].source, idb[k].processedAt))
          /\ k = StoreKey(uName) => idb[k] = uPayload)

\* C15 witness: a save failed after an earlier collection was stored, and
\* the earlier collection is all the store holds
AtomicPersistenceWitness ==
  /\ saveOutcome = "skipped"
  /\ Cardinality(DOMAIN idb) = 1
  /\ StoreKey(uName) \notin DOMAIN idb
  /\ \A k \in DOMAIN idb : idb[k].chunks # <<>>

\* the number of windows of a text of L characters: starts 0, 1200, 2400,
\* ..., the last window ending at L
WinCount(L) ==
  IF L = 0 THEN 0
  ELSE IF L <= 1500 THEN 1
  ELSE ((L - 1500 + 1199) \div 1200) + 1

\* window k (from 1) of the normalized text t
Window(t, k) == SubSeq(t, (k - 1) * 1200 + 1, Min2((k - 1) * 1200 + 1500, Len(t)))

RECURSIVE PageLayout(_, _, _)
\* the chunks of page p from window k on: the trimmed windows longer than 50
PageLayout(t, p, k) ==
  IF k > WinCount(Len(t)) THEN <<>>
  ELSE LET w == Trim(Window(t, k))
       IN  (IF Len(w) > 50 THEN <<[page |-> p, text |-> w]>> ELSE <<>>)
             \o PageLayout(t, p, k + 1)

RECURSIVE Layout(_, _)
\* the chunks of the pages from page p on, in page order
Layout(texts, p) ==
  IF p > Len(texts) THEN <<>>
  ELSE PageLayout(Normalize(texts[p]), p, 1) \o Layout(texts, p + 1)

\* the example: pages of 2000 and 120 characters give [0,1500) and
\* [1200,2000) for page 1 and one chunk for page 2
ExampleLayout(c) ==
  /\ Len(c) = 3
  /\ c[1].page = 1 /\ Len(c[1].text) = 1500
  /\ c[2].page = 1 /\ Len(c[2].text) = 800
  /\ SubSeq(c[1].text, 1201, 1500) = SubSeq(c[2].text, 1, 300)
  /\ c[3].page = 2 /\ Len(c[3].text) = 120

\* C16: for an N-page document the collection has totalPages = N and its
\* chunks are the chunks of page 1, then of page 2, ..., each page's chunks
\* being its windows at offsets 0, 1200, 2400, ... (the last ending at the
\* length of the page), each tagged with its own page
EndToEndLayout ==
  [][(uPayload = <<>> /\ uPayload' # <<>>) =>
       /\ uPayload'.totalPages = Len(uFile.pages)
       /\ uPayload'.chunks = Layout(uFile.pages, 1)
       /\ uFile.name = Name_two => ExampleLayout(uPayload'.chunks)]_vars

\* C16 witness: the two-page example, stored with its three chunks
EndToEndLayoutWitness ==
  /\ uFile.name = Name_two
  /\ StoreKey(uName) \in DOMAIN idb
  /\ idb[StoreKey(uName)].totalPages = 2
  /\ LET c == idb[StoreKey(uName)].chunks
     IN  /\ Len(c) = 3
         /\ c[1].page = 1 /\ Len(c[1].text) = 1500
         /\ c[2].page = 1 /\ Len(c[2].text) = 800
         /\ c[3].page = 2 /\ Len(c[3].text) = 120

(***************************************************************************)
(* Properties of the remote calls, continued                               *)
(***************************************************************************)
\* the number of requests of the kind req in the log
Count(reqs, req) == Cardinality({k \in 1..Len(reqs) : reqs[k].req = req})

\* a failed request is the last one of its operation
FailureIsLast(reqs) ==
  \A k \in 1..Len(reqs) : reqs[k].res = "failed" => k = Len(reqs)

\* C17: an ask sends at most one GET /api/health and at most one POST
\* /api/chat, an upload at most one POST /api/index, whatever their
\* outcome; a request that failed is followed by no other request, and its
\* operation has ended
NoAutomaticRetry ==
  /\ Count(aReqs, "health") <= 1
  /\ Count(aReqs, "chat") <= 1
  /\ Count(uReqs, "index") <= 1
  /\ FailureIsLast(aReqs) /\ FailureIsLast(uReqs)
  /\ (aReqs # <<>> /\ aReqs[Len(aReqs)].res = "failed") =>
       (apc = "idle" /\ ~chatLoading /\ chatLast \in {"healthFailed", "requestFailed"})
  /\ (uReqs # <<>> /\ uReqs[Len(uReqs)].res = "failed") => (upc = "idle" /\ ~isProcessing)

\* C17 witness: the chat request and the index submission have both failed
NoAutomaticRetryWitness ==
  /\ Len(aReqs) = 2 /\ aReqs[2] = Req("chat", "failed")
  /\ uReqs = <<Req("index", "failed")>>

(***************************************************************************)
(* Properties across operations                                            *)
(***************************************************************************)
\* C18: an upload cannot start while another is in flight, and the delayed
\* reset that an upload schedules when it ends never zeroes currentPage or
\* totalPages of a later upload that has already started
UploadIsolation ==
  /\ [][uploads' # uploads => (~isProcessing /\ upc = "idle")]_vars
  /\ [][(resetTimers' < resetTimers /\ isProcessing) =>
          (currentPage' = currentPage /\ totalPages' = totalPages)]_vars

\* C19: POST /api/chat naming collection c is sent only when the POST
\* /api/index of the upload of c has settled
IndexBeforeChat ==
  [][(apc = "health" /\ apc' = "chat") => reqCollection \in indexSettled]_vars

\* C20: when the last chat operation has ended with a reply, the sources
\* shown are those returned with that reply: an error message, a raw-string
\* answer, an unrecognized-shape notice or a backend-unavailable notice
\* leaves no sources of an earlier answer on display
SourcesFreshness ==
  /\ chatLast = "answer" => sources = aResp.sources
  /\ chatLast \in {"requestFailed", "backendError", "raw", "unexpected", "healthFailed"}
       => sources = <<>>

====
